---- MODULE Spec2Model ----
(***************************************************************************)
(* A model of sgpt/llm_functions/common/internet_search.py: the search     *)
(* request (_googleapis), the concurrent fetch of the result pages         *)
(* (_fetch_and_process_web_content over a ThreadPoolExecutor), the text    *)
(* extraction of one page (_fetch_single_page), the report                 *)
(* (_convert_to_readable_string) and the failure boundary (execute).       *)
(* Python strings are TLA+ strings; TLC evaluates Len, \o and SubSeq on    *)
(* them.                                                                   *)
(***************************************************************************)
EXTENDS Integers, Sequences, FiniteSets, TLC

\* ------------------------------------------------------------------------
\* Bounds of the model and constants of the program
\* ------------------------------------------------------------------------
MaxItems == 2
MaxElems == 3
MaxWorkers == 10
MaxContent == 4096
SepWidth == 50

Min(a, b) == IF a <= b THEN a ELSE b

RECURSIVE SeqsUpTo(_, _)
SeqsUpTo(S, n) ==
  IF n = 0 THEN {<<>>}
  ELSE LET shorter == SeqsUpTo(S, n - 1)
       IN shorter \cup {Append(s, x) : s \in {t \in shorter : Len(t) = n - 1}, x \in S}

\* ------------------------------------------------------------------------
\* Python string operations
\* ------------------------------------------------------------------------
\* s * n
RECURSIVE Rep(_, _)
Rep(s, n) ==
  IF n <= 0 THEN ""
  ELSE LET h == Rep(s, n \div 2)
       IN IF n % 2 = 0 THEN h \o h ELSE h \o h \o s

Whitespace == {" ", "\n", "\t"}

\* s[:n] and s[n:]
Prefix(s, n) == SubSeq(s, 1, Min(n, Len(s)))
Suffix(s, n) == SubSeq(s, n + 1, Len(s))

BeginsWith(s, p) == Len(s) >= Len(p) /\ SubSeq(s, 1, Len(p)) = p
EndsWith(s, p) == Len(s) >= Len(p) /\ SubSeq(s, Len(s) - Len(p) + 1, Len(s)) = p

\* the positions at which sub occurs in s
Occurrences(s, sub) ==
  {i \in 1..(Len(s) - Len(sub) + 1) : SubSeq(s, i, i + Len(sub) - 1) = sub}

Contains(s, sub) == Occurrences(s, sub) # {}

\* str.strip()
RECURSIVE LStrip(_)
LStrip(s) ==
  IF Len(s) > 0 /\ SubSeq(s, 1, 1) \in Whitespace THEN LStrip(Suffix(s, 1)) ELSE s

RECURSIVE RStrip(_)
RStrip(s) ==
  IF Len(s) > 0 /\ SubSeq(s, Len(s), Len(s)) \in Whitespace
  THEN RStrip(Prefix(s, Len(s) - 1))
  ELSE s

Strip(s) == RStrip(LStrip(s))

\* str.split(sep): left to right, non-overlapping; "".split(sep) is [""]
RECURSIVE Split(_, _)
Split(s, sep) ==
  LET occ == Occurrences(s, sep)
  IN IF occ = {} THEN <<s>>
     ELSE LET i == CHOOSE k \in occ : \A j \in occ : k <= j
          IN <<SubSeq(s, 1, i - 1)>> \o Split(Suffix(s, i + Len(sep) - 1), sep)

\* str.splitlines() for the line boundary "\n": no piece after a final boundary
SplitLines(s) ==
  LET parts == Split(s, "\n")
  IN IF parts[Len(parts)] = "" THEN SubSeq(parts, 1, Len(parts) - 1) ELSE parts

\* sep.join(parts)
RECURSIVE Join(_, _)
Join(parts, sep) ==
  IF parts = <<>> THEN ""
  ELSE IF Len(parts) = 1 THEN parts[1]
  ELSE parts[1] \o sep \o Join(Tail(parts), sep)

\* str(i) for i >= 0
Digit == <<"0", "1", "2", "3", "4", "5", "6", "7", "8", "9">>

RECURSIVE IntToStr(_)
IntToStr(i) ==
  IF i < 10 THEN Digit[i + 1] ELSE IntToStr(i \div 10) \o Digit[(i % 10) + 1]

RECURSIVE Flatten(_)
Flatten(ss) == IF ss = <<>> THEN <<>> ELSE ss[1] \o Flatten(Tail(ss))

\* ------------------------------------------------------------------------
\* Exceptions: a raised exception is its class and its message, str(e)
\* ------------------------------------------------------------------------
Exc(type, msg) == [type |-> type, msg |-> msg]
NoExc == Exc("", "")

\* the direct bases of the exception classes the code names or can meet
Bases(type) ==
  CASE type = "Timeout" -> {"RequestException"}
    [] type = "ConnectionError" -> {"RequestException"}
    [] type = "HTTPError" -> {"RequestException"}
    [] type = "ReadTimeout" -> {"Timeout"}
    [] type = "ConnectTimeout" -> {"ConnectionError", "Timeout"}
    [] type = "JSONDecodeError" -> {"RequestException", "ValueError"}
    [] type = "MissingSchema" -> {"RequestException", "ValueError"}
    [] type = "RequestException" -> {"Exception"}
    [] type = "ValueError" -> {"Exception"}
    [] type = "AttributeError" -> {"Exception"}
    [] type = "TypeError" -> {"Exception"}
    [] OTHER -> {}

\* isinstance(e, cls): what an except clause tests
RECURSIVE IsInstance(_, _)
IsInstance(type, cls) ==
  type = cls \/ \E b \in Bases(type) : IsInstance(b, cls)

\* ------------------------------------------------------------------------
\* One page: what the server answers and what BeautifulSoup makes of it
\* ------------------------------------------------------------------------
content_selectors ==
  <<"main", "article", "[role=\"main\"]", ".content", "#content", ".post",
    ".article", "body">>

\* An element is the selector it matches ("div" matches none, "script" and
\* "style" are the tags line 195 removes) and its text node.
Elem(kind, text) == [kind |-> kind, text |-> text]
\* A document is its elements in document order, inside a body tag or not.
Doc(hasBody, elems) == [hasBody |-> hasBody, elems |-> elems]
EmptyDoc == Doc(FALSE, <<>>)

HtmlPage(doc) == [kind |-> "html", exc |-> NoExc, doc |-> doc]
RaisePage(e) == [kind |-> "raise", exc |-> e, doc |-> EmptyDoc]

Returned(val) == [ok |-> TRUE, val |-> val, exc |-> NoExc]
Raised(e) == [ok |-> FALSE, val |-> "", exc |-> e]

\* for script in soup(["script", "style"]): script.decompose()
Decompose(doc) ==
  Doc(doc.hasBody, SelectSeq(doc.elems, LAMBDA e : e.kind \notin {"script", "style"}))

NoTag == [found |-> FALSE, strings |-> <<>>]
Tag(strings) == [found |-> TRUE, strings |-> strings]

AllStrings(doc) == [i \in 1..Len(doc.elems) |-> doc.elems[i].text]

\* soup.select_one(selector): the first match in document order, or None
SelectOne(doc, selector) ==
  IF selector = "body"
  THEN IF doc.hasBody THEN Tag(AllStrings(doc)) ELSE NoTag
  ELSE LET hits == {i \in 1..Len(doc.elems) : doc.elems[i].kind = selector}
       IN IF hits = {} THEN NoTag
          ELSE Tag(<<doc.elems[CHOOSE i \in hits : \A j \in hits : i <= j].text>>)

\* bool(tag): a bs4 Tag is true whatever it holds, None is false
\* (variant: a tag counts only when it holds text)
TagTruthIfText(tag) ==
  tag.found /\ \E i \in 1..Len(tag.strings) : Strip(tag.strings[i]) # ""
TagTruth(tag) == tag.found

\* tag.get_text(separator=" ", strip=True)
GetText(tag) ==
  Join(SelectSeq([i \in 1..Len(tag.strings) |-> Strip(tag.strings[i])],
                 LAMBDA t : t # ""), " ")

\* the loop of lines 211-216 from the k-th selector on
RECURSIVE SelectContent(_, _)
SelectContent(doc, k) ==
  IF k > Len(content_selectors) THEN ""
  ELSE LET content_element == SelectOne(doc, content_selectors[k])
       IN IF TagTruth(content_element) THEN GetText(content_element)
          ELSE SelectContent(doc, k + 1)

\* lines 218-224: the whole body, or the whole document
Fallback(doc) ==
  LET body == SelectOne(doc, "body")
  IN IF TagTruth(body) THEN GetText(body) ELSE GetText(Tag(AllStrings(doc)))

ExtractText(doc) ==
  LET text_content == SelectContent(doc, 1)
  IN IF text_content = "" THEN Fallback(doc) ELSE text_content

\* lines 228-230
CleanText(text_content) ==
  LET lines == [i \in 1..Len(SplitLines(text_content)) |->
                  Strip(SplitLines(text_content)[i])]
      chunks == Flatten([i \in 1..Len(lines) |->
                  [j \in 1..Len(Split(lines[i], "  ")) |->
                     Strip(Split(lines[i], "  ")[j])]])
  IN Join(SelectSeq(chunks, LAMBDA chunk : chunk # ""), " ")

\* lines 233-234
\* (variant: cut from 4096 characters on)
TruncateFrom(text_content) ==
  IF Len(text_content) >= MaxContent THEN Prefix(text_content, MaxContent) \o "..."
  ELSE text_content
Truncate(text_content) ==
  IF Len(text_content) > MaxContent THEN Prefix(text_content, MaxContent) \o "..."
  ELSE text_content

\* _fetch_single_page: the returned text, or the exception it lets through
FetchSinglePage(page) ==
  IF page.kind = "raise" THEN Raised(page.exc)
  ELSE Returned(Truncate(CleanText(ExtractText(Decompose(page.doc)))))

\* ------------------------------------------------------------------------
\* The search request
\* ------------------------------------------------------------------------
\* An environment variable is <<>> when unset and <<value>> when set.
Unset == <<>>
IsSet(var) == var # <<>> /\ var[1] # ""

\* cfg.get("REQUEST_TIMEOUT"): sgpt's configuration holds an integer string,
\* so int() at lines 88 and 141 does not raise
REQUEST_TIMEOUT == "60"
SEARCH_URL == "https://www.googleapis.com/customsearch/v1"

Item(title, link) == [title |-> title, link |-> link]

\* What requests.get, raise_for_status and response.json() give: an exception,
\* a JSON array, an object with an "error" member (its "message" set or not),
\* or an object with its "items" (a missing member reads as "").
RespRaise(e) == [kind |-> "raise", exc |-> e, message |-> <<>>, items |-> <<>>]
RespArray == [kind |-> "array", exc |-> NoExc, message |-> <<>>, items |-> <<>>]
RespError(message) == [kind |-> "error", exc |-> NoExc, message |-> message, items |-> <<>>]
RespItems(items) == [kind |-> "items", exc |-> NoExc, message |-> <<>>, items |-> items]

SearchReturned(results) == [ok |-> TRUE, val |-> results, exc |-> NoExc]
SearchRaised(e) == [ok |-> FALSE, val |-> <<>>, exc |-> e]

\* lines 71-75: the exception raised for a missing value, or NoExc
\* (variant: the CX is not checked)
CheckConfigKeyOnly(key, cx) ==
  IF ~IsSet(key) THEN Exc("ValueError", "Google Search API key is not configured")
  ELSE NoExc
CheckConfig(key, cx) ==
  IF ~IsSet(key) THEN Exc("ValueError", "Google Search API key is not configured")
  ELSE IF ~IsSet(cx) THEN Exc("ValueError", "Google Search API CX is not configured")
  ELSE NoExc

\* lines 100-109
\* (variant: the link is not checked)
BuildResultsTitled(items) ==
  LET kept == SelectSeq(items, LAMBDA item : item.title # "")
  IN [i \in 1..Len(kept) |-> <<kept[i].title, kept[i].link>>]
BuildResults(items) ==
  LET kept == SelectSeq(items, LAMBDA item : item.title # "" /\ item.link # "")
  IN [i \in 1..Len(kept) |-> <<kept[i].title, kept[i].link>>]

\* lines 88-109: the body of the try block
TryRequest(response) ==
  CASE response.kind = "raise" -> SearchRaised(response.exc)
    [] response.kind = "array" ->
         SearchRaised(Exc("AttributeError", "'list' object has no attribute 'get'"))
    [] response.kind = "error" ->
         SearchRaised(Exc("RequestException", "Google API error: " \o
           (IF response.message = <<>> THEN "Unknown API error" ELSE response.message[1])))
    [] OTHER -> SearchReturned(BuildResults(response.items))

\* lines 111-123: the except clauses, in their order
\* (variant: RequestException tested before Timeout)
SearchExceptSwapped(e) ==
  IF IsInstance(e.type, "RequestException")
  THEN Exc("RequestException", "Request failed: " \o e.msg)
  ELSE IF IsInstance(e.type, "Timeout")
  THEN Exc("Timeout", "Google Search API request timeout")
  ELSE IF IsInstance(e.type, "ValueError")
  THEN Exc("RequestException", "Failed to parse API response: " \o e.msg)
  ELSE e
SearchExcept(e) ==
  IF IsInstance(e.type, "Timeout")
  THEN Exc("Timeout", "Google Search API request timeout")
  ELSE IF IsInstance(e.type, "RequestException")
  THEN Exc("RequestException", "Request failed: " \o e.msg)
  ELSE IF IsInstance(e.type, "ValueError")
  THEN Exc("RequestException", "Failed to parse API response: " \o e.msg)
  ELSE e

\* _googleapis once the configuration is there
RequestAndParse(response) ==
  LET out == TryRequest(response)
  IN IF out.ok THEN out ELSE SearchRaised(SearchExcept(out.exc))

\* ------------------------------------------------------------------------
\* The report and the failure boundary
\* ------------------------------------------------------------------------
Section(i, title, content) ==
  "=== No." \o IntToStr(i) \o " result ===\n" \o "Title: " \o title \o "\n"
  \o "Content: " \o content \o "\n" \o Rep("=", SepWidth) \o "\n"

\* _convert_to_readable_string
ConvertToReadableString(processed) ==
  Join([i \in 1..Len(processed) |-> Section(i, processed[i][1], processed[i][2])], "\n")

NoResultsMessage == "Exit code: 0, Output:\nNo search results were found for your query."

SuccessMessage(processed) == "Exit code: 0, Output:\n" \o ConvertToReadableString(processed)

ConfigPrefix == "Exit code: 1, Output:\nInternet search tool configuration error: "
TimeoutPrefix == "Exit code: 1, Output:\nSearch request timed out after "
NetworkPrefix == "Exit code: 1, Output:\nNetwork error during search. Error details: "
UnexpectedPrefix == "Exit code: 1, Output:\nUnexpected error during search. Error type: "

\* lines 289-316: the except clauses of execute, in their order
ExecuteExcept(e) ==
  IF IsInstance(e.type, "ValueError")
  THEN Returned(ConfigPrefix \o e.msg
         \o ". Please check your API key and search engine configuration.")
  ELSE IF IsInstance(e.type, "Timeout")
  THEN Returned(TimeoutPrefix \o REQUEST_TIMEOUT \o " seconds. Error details: " \o e.msg
         \o ". Please try a different query or check your network connection.")
  ELSE IF IsInstance(e.type, "RequestException")
  THEN Returned(NetworkPrefix \o e.msg
         \o ". Please check your network connection and API configuration.")
  ELSE IF IsInstance(e.type, "Exception")
  THEN Returned(UnexpectedPrefix \o e.type \o ", Error details: " \o e.msg
         \o ". The operation has been terminated to prevent further issues.")
  ELSE Raised(e)

\* ------------------------------------------------------------------------
\* State
\* ------------------------------------------------------------------------
VARIABLES
  env_key,            \* os.getenv("INTERNET_SEARCH_API_KEY")
  env_cx,             \* os.getenv("INTERNET_SEARCH_API_CX")
  api,                \* the responses the search endpoint can give
  web,                \* for each URL, the pages its server can answer with
  pc,                 \* where execute is: start, submit, collect, done
  response,           \* <<>>, or <<the response the search request got>>
  requests,           \* the URLs requested so far, in order
  search_results,     \* execute's search_results: <<title, url>> pairs
  executor,           \* whether the ThreadPoolExecutor exists
  max_workers,        \* its max_workers
  futures,            \* the futures in submission order: args, state, result
  future_to_url,      \* the dict of line 148: future (its index) -> <<title, url>>
  yielded,            \* the futures as_completed has yielded
  processed_content,  \* the list of line 138
  ret                 \* what execute returned, once pc = "done"

vars ==
  <<env_key, env_cx, api, web, pc, response, requests, search_results, executor,
    max_workers, futures, future_to_url, yielded, processed_content, ret>>

Pending == Raised(NoExc)

Future(args, state, result) == [args |-> args, state |-> state, result |-> result]

Running == {i \in 1..Len(futures) : futures[i].state = "running"}
Queued == {i \in 1..Len(futures) : futures[i].state = "queued"}
Finished == {i \in 1..Len(futures) : futures[i].state = "finished"}

\* ------------------------------------------------------------------------
\* The environments the program is run in
\* ------------------------------------------------------------------------
URLs == {"u1", "u2", "u3"}

EnvValues == {Unset, <<"">>, <<"secret">>}

RawItems ==
  {Item("A", "u1"), Item("B", "u2"), Item("A", "u2"), Item("B", "u1"),
   Item("", "u1"), Item("A", "")}

FailingResponses ==
  {RespRaise(Exc("ReadTimeout", "Read timed out. (read timeout=60)")),
   RespRaise(Exc("ConnectTimeout", "Connection to host timed out")),
   RespRaise(Exc("ConnectionError", "Connection refused")),
   RespRaise(Exc("HTTPError", "403 Client Error: Forbidden for url")),
   RespRaise(Exc("JSONDecodeError", "Expecting value: line 1 column 1 (char 0)")),
   RespRaise(Exc("ValueError", "No JSON object could be decoded")),
   RespArray,
   RespError(<<"Daily Limit Exceeded">>),
   RespError(<<>>)}

\* three results of three servers
ThreeItems == <<Item("A", "u1"), Item("B", "u2"), Item("C", "u3")>>

Responses ==
  FailingResponses \cup {RespItems(ThreeItems)}
  \cup {RespItems(items) : items \in SeqsUpTo(RawItems, MaxItems)}

ShortDoc == Doc(TRUE, <<Elem("script", "alert(1)"), Elem("main", "Hello   World")>>)
OtherDoc == Doc(FALSE, <<Elem("div", "Other page")>>)
LongReason == "500 Server Error: " \o Rep("E", MaxContent) \o " for url"

SmallPages ==
  {HtmlPage(ShortDoc), HtmlPage(OtherDoc),
   RaisePage(Exc("ReadTimeout", "Read timed out. (read timeout=60)"))}

\* the pool's environment: batches of one result, of as many as the pool's cap
\* and of one more, all of one small page
PoolSizes == {1, MaxWorkers, MaxWorkers + 1}
PoolDoc == Doc(TRUE, <<Elem("main", "ok")>>)
PoolResponses ==
  {RespRaise(Exc("ReadTimeout", "Read timed out. (read timeout=60)")), RespItems(<<>>)}
  \cup {RespItems([i \in 1..n |-> Item("A", "u1")]) : n \in PoolSizes}

\* the page's environment: one result, whose page is any of PageInputs
ElemKinds ==
  {"main", "article", "[role=\"main\"]", ".content", "#content", ".post", ".article"}
ElemTexts == {"", " Hello   World\n"}
Elems == {Elem(k, t) : k \in ElemKinds, t \in ElemTexts}
Docs == {Doc(b, es) : b \in BOOLEAN, es \in SeqsUpTo(Elems, MaxElems)}
\* documents with elements no selector matches, and texts around the cap
EdgeDocs ==
  {ShortDoc, OtherDoc,
   Doc(TRUE, <<Elem("div", " a\n b  c "), Elem("script", "alert(1)")>>),
   Doc(TRUE, <<Elem("main", " \n"), Elem("div", "x"), Elem(".article", "y")>>),
   Doc(FALSE, <<Elem("style", "p {}"), Elem("div", ""), Elem(".post", "z")>>)}
  \cup
  {Doc(b, <<Elem(k, Rep("x", n))>>) :
     b \in BOOLEAN, k \in {"main", "div"},
     n \in {MaxContent - 1, MaxContent, MaxContent + 1, MaxContent + 4}}
  \cup {Doc(TRUE, <<Elem("main", Rep("x", MaxContent - 3) \o "..."),
                    Elem("div", Rep("y", n))>>) : n \in {0, 1}}
PageInputs ==
  {HtmlPage(d) : d \in Docs \cup EdgeDocs}
  \cup {RaisePage(Exc("ReadTimeout", "Read timed out. (read timeout=60)")),
        RaisePage(Exc("HTTPError", LongReason)),
        RaisePage(Exc("MissingSchema", "Invalid URL 'u1': No scheme supplied"))}
PageResponses ==
  {RespRaise(Exc("ReadTimeout", "Read timed out. (read timeout=60)")), RespItems(<<>>),
   RespItems(<<Item("A", "u1")>>)}

InitProgram ==
  /\ env_key \in EnvValues
  /\ env_cx \in EnvValues
  /\ pc = "start"
  /\ response = <<>>
  /\ requests = <<>>
  /\ search_results = <<>>
  /\ executor = FALSE
  /\ max_workers = 0
  /\ futures = <<>>
  /\ future_to_url = <<>>
  /\ yielded = {}
  /\ processed_content = <<>>
  /\ ret = Pending

Init ==
  /\ InitProgram
  /\ api = Responses
  /\ web = [u \in URLs |-> SmallPages]

InitPool ==
  /\ InitProgram
  /\ \E r \in PoolResponses :
       /\ api = {r}
       /\ r = RespItems(<<>>) \/ (IsSet(env_key) /\ IsSet(env_cx))
  /\ web = [u \in URLs |-> {HtmlPage(PoolDoc)}]

InitPage ==
  /\ InitProgram
  /\ \E r \in PageResponses :
       /\ api = {r}
       /\ r = RespItems(<<>>) \/ (IsSet(env_key) /\ IsSet(env_cx))
  /\ \E page \in PageInputs :
       /\ web = [u \in URLs |-> {page}]
       /\ page = HtmlPage(ShortDoc) \/ api = {RespItems(<<Item("A", "u1")>>)}

\* ------------------------------------------------------------------------
\* execute, step by step
\* ------------------------------------------------------------------------
Return(value) ==
  /\ ret' = value
  /\ pc' = "done"

\* lines 68-75, 289-294: a value is missing, nothing is requested
ConfigError ==
  /\ pc = "start"
  /\ CheckConfig(env_key, env_cx) # NoExc
  /\ Return(ExecuteExcept(CheckConfig(env_key, env_cx)))
  /\ UNCHANGED <<env_key, env_cx, api, web, response, requests, search_results,
                 executor, max_workers, futures, future_to_url, yielded,
                 processed_content>>

\* lines 77-123, 295-316: the search request fails
SearchFails ==
  /\ pc = "start"
  /\ CheckConfig(env_key, env_cx) = NoExc
  /\ \E r \in api :
       /\ ~RequestAndParse(r).ok
       /\ response' = <<r>>
       /\ requests' = Append(requests, SEARCH_URL)
       /\ Return(ExecuteExcept(RequestAndParse(r).exc))
  /\ UNCHANGED <<env_key, env_cx, api, web, search_results, executor, max_workers,
                 futures, future_to_url, yielded, processed_content>>

\* lines 276-279: the search gives no result
SearchEmpty ==
  /\ pc = "start"
  /\ CheckConfig(env_key, env_cx) = NoExc
  /\ \E r \in api :
       /\ RequestAndParse(r).ok
       /\ RequestAndParse(r).val = <<>>
       /\ response' = <<r>>
       /\ requests' = Append(requests, SEARCH_URL)
       /\ Return(Returned(NoResultsMessage))
  /\ UNCHANGED <<env_key, env_cx, api, web, search_results, executor, max_workers,
                 futures, future_to_url, yielded, processed_content>>

\* line 145
\* (variant: one worker per result, no cap)
PoolSizeUncapped(results) == Len(results)
PoolSize(results) == Min(MaxWorkers, Len(results))

\* lines 276-282, 138-146: the search gives results, the executor is created
SearchOk ==
  /\ pc = "start"
  /\ CheckConfig(env_key, env_cx) = NoExc
  /\ \E r \in api :
       /\ RequestAndParse(r).ok
       /\ RequestAndParse(r).val # <<>>
       /\ response' = <<r>>
       /\ requests' = Append(requests, SEARCH_URL)
       /\ search_results' = RequestAndParse(r).val
       /\ max_workers' = PoolSize(RequestAndParse(r).val)
  /\ executor' = TRUE
  /\ pc' = "submit"
  /\ UNCHANGED <<env_key, env_cx, api, web, futures, future_to_url, yielded,
                 processed_content, ret>>

\* lines 148-154: executor.submit for the next search result
Submit ==
  /\ pc = "submit"
  /\ LET i == Len(futures) + 1
     IN /\ futures' = Append(futures, Future(search_results[i], "queued", Pending))
        /\ future_to_url' = Append(future_to_url, search_results[i])
        /\ pc' = IF i = Len(search_results) THEN "collect" ELSE "submit"
  /\ UNCHANGED <<env_key, env_cx, api, web, response, requests, search_results,
                 executor, max_workers, yielded, processed_content, ret>>

\* A worker takes the oldest queued task and sends its request (line 188).
\* The executor never runs more than max_workers threads, whatever its
\* thread-reuse policy.
Start(i) ==
  /\ i \in Queued
  /\ \A j \in Queued : i <= j
  /\ Cardinality(Running) < max_workers
  /\ futures' = [futures EXCEPT ![i].state = "running"]
  /\ requests' = Append(requests, futures[i].args[2])
  /\ UNCHANGED <<env_key, env_cx, api, web, pc, response, search_results, executor,
                 max_workers, future_to_url, yielded, processed_content, ret>>

\* lines 188-236: the task ends, with its text or its exception
Finish(i) ==
  /\ i \in Running
  /\ \E page \in web[futures[i].args[2]] :
       futures' = [futures EXCEPT ![i].state = "finished",
                                  ![i].result = FetchSinglePage(page)]
  /\ UNCHANGED <<env_key, env_cx, api, web, pc, response, requests, search_results,
                 executor, max_workers, future_to_url, yielded, processed_content, ret>>

\* line 158: future_to_url[future]; the dict is keyed by the future itself
\* (variant: the dict keyed by the URL, the last submitted pair kept)
LookupByUrl(i) ==
  LET same == {j \in 1..Len(future_to_url) : future_to_url[j][2] = future_to_url[i][2]}
  IN future_to_url[CHOOSE j \in same : \A k \in same : k <= j]
Lookup(i) == future_to_url[i]

\* lines 158-166: the entry appended for a yielded future
\* (variant: the exception message left out)
EntryOfBare(i) ==
  LET title == Lookup(i)[1]
      result == futures[i].result
  IN IF result.ok THEN <<title, result.val>>
     ELSE <<title, "Failed to fetch content: ">>
EntryOf(i) ==
  LET title == Lookup(i)[1]
      result == futures[i].result
  IN IF result.ok THEN <<title, result.val>>
     ELSE <<title, "Failed to fetch content: " \o result.exc.msg>>

\* line 161 / 164: processed_content.append
\* (variants: the entry put at its place in input order; a failed fetch dropped)
InsertInInputOrder(i) ==
  LET before == SelectSeq(processed_content,
                  LAMBDA e : \E k \in yielded : k < i /\ e = EntryOf(k))
  IN before \o <<EntryOf(i)>>
     \o SubSeq(processed_content, Len(before) + 1, Len(processed_content))
AppendEntryIfFetched(i) ==
  IF futures[i].result.ok THEN Append(processed_content, EntryOf(i))
  ELSE processed_content
AppendEntry(i) == Append(processed_content, EntryOf(i))

\* lines 157-166: as_completed yields a finished future
Collect(i) ==
  /\ pc = "collect"
  /\ i \in Finished \ yielded
  /\ yielded' = yielded \cup {i}
  /\ processed_content' = AppendEntry(i)
  /\ UNCHANGED <<env_key, env_cx, api, web, pc, response, requests, search_results,
                 executor, max_workers, futures, future_to_url, ret>>

\* lines 168, 285-287: every future was yielded; the report is returned
ReturnReport ==
  /\ pc = "collect"
  /\ yielded = 1..Len(futures)
  /\ Return(Returned(SuccessMessage(processed_content)))
  /\ UNCHANGED <<env_key, env_cx, api, web, response, requests, search_results,
                 executor, max_workers, futures, future_to_url, yielded,
                 processed_content>>

Next ==
  \/ ConfigError
  \/ SearchFails
  \/ SearchEmpty
  \/ SearchOk
  \/ Submit
  \/ \E i \in 1..Len(futures) : Start(i)
  \/ \E i \in 1..Len(futures) : Finish(i)
  \/ \E i \in 1..Len(futures) : Collect(i)
  \/ ReturnReport

Spec == Init /\ [][Next]_vars
SpecPool == InitPool /\ [][Next]_vars
SpecPage == InitPage /\ [][Next]_vars

\* ------------------------------------------------------------------------
\* Properties
\* ------------------------------------------------------------------------
BatchReturned == pc = "done" /\ executor

FailurePrefix == "Failed to fetch content: "

\* how often x occurs in the sequence s
Count(s, x) == Cardinality({j \in 1..Len(s) : s[j] = x})

Titles(pairs) == [j \in 1..Len(pairs) |-> pairs[j][1]]

\* the body the i-th search result's own task gives
OwnBody(i) ==
  IF futures[i].result.ok THEN futures[i].result.val
  ELSE FailurePrefix \o futures[i].result.exc.msg

\* C1: when the batch returns, processed_content is as long as search_results
\* and holds, for every title, as many entries as search_results holds
\* results of that title: no result is dropped and none is duplicated,
\* whatever each page did and in whatever order the tasks ended.
C1_OneEntryPerResult ==
  BatchReturned =>
    /\ Len(processed_content) = Len(search_results)
    /\ \A i \in 1..Len(search_results) :
         Count(Titles(processed_content), search_results[i][1])
           = Count(Titles(search_results), search_results[i][1])

C1_Witness ==
  /\ BatchReturned
  /\ Len(search_results) >= 2
  /\ \E i, j \in 1..Len(futures) : futures[i].result.ok /\ ~futures[j].result.ok

\* C2: an exception raised in one task becomes that result's entry, whose
\* body is "Failed to fetch content: " followed by the exception's message;
\* the other tasks ran to their end and their entries hold their own text;
\* the batch is not aborted: execute returns the report, one section per
\* search result.
C2_FailureIsolated ==
  BatchReturned =>
    /\ \A i \in 1..Len(search_results) :
         /\ futures[i].state = "finished"
         /\ futures[i].result.ok =>
              \E j \in 1..Len(processed_content) :
                processed_content[j] = <<search_results[i][1], futures[i].result.val>>
         /\ ~futures[i].result.ok =>
              \E j \in 1..Len(processed_content) :
                /\ processed_content[j][1] = search_results[i][1]
                /\ BeginsWith(processed_content[j][2], FailurePrefix)
                /\ Suffix(processed_content[j][2], Len(FailurePrefix))
                     = futures[i].result.exc.msg
    /\ ret.ok
    /\ BeginsWith(ret.val, "Exit code: 0")
    /\ Cardinality(Occurrences(ret.val, "=== No.")) = Len(search_results)

\* one of three pages times out, the other two give their text
C2_Witness ==
  /\ BatchReturned
  /\ Len(search_results) = 3
  /\ Cardinality({i \in 1..3 : ~futures[i].result.ok}) = 1
  /\ Cardinality(Occurrences(ret.val, FailurePrefix \o "Read timed out")) = 1
  /\ Cardinality(Occurrences(ret.val, "Content: Hello World\n")) = 2

\* what made the search stage fail, read from the inputs alone
TimeoutTypes == {"Timeout", "ReadTimeout", "ConnectTimeout"}
NetworkTypes == {"RequestException", "ConnectionError", "HTTPError", "JSONDecodeError",
                 "ValueError"}
SearchFailure ==
  IF ~IsSet(env_key) \/ ~IsSet(env_cx) THEN "config"
  ELSE IF response = <<>> THEN "pending"
  ELSE IF response[1].kind = "raise" /\ response[1].exc.type \in TimeoutTypes THEN "timeout"
  ELSE IF response[1].kind = "raise" /\ response[1].exc.type \in NetworkTypes THEN "network"
  ELSE IF response[1].kind = "error" THEN "network"
  ELSE IF response[1].kind = "items" THEN "none"
  ELSE "other"

FailureMessagePrefix(kind) ==
  CASE kind = "config" -> ConfigPrefix
    [] kind = "timeout" -> TimeoutPrefix
    [] kind = "network" -> NetworkPrefix
    [] OTHER -> UnexpectedPrefix

\* C3: execute returns a string and never raises; a search-stage failure
\* returns the message of its kind (configuration, timeout, network or
\* API-reported, unexpected), which begins with "Exit code: 1" and holds no
\* report section; a timeout gets the timeout message, not the network one;
\* the return begins with "Exit code: 0" exactly when the search stage
\* succeeded, whatever the pages did.
C3_FailureBoundary ==
  pc = "done" =>
    /\ ret.ok
    /\ SearchFailure # "none" =>
         /\ BeginsWith(ret.val, FailureMessagePrefix(SearchFailure))
         /\ BeginsWith(ret.val, "Exit code: 1")
         /\ ~Contains(ret.val, "=== No.")
         /\ \A other \in {"config", "timeout", "network", "other"} \ {SearchFailure} :
              ~BeginsWith(ret.val, FailureMessagePrefix(other))
    /\ BeginsWith(ret.val, "Exit code: 0") <=> SearchFailure = "none"

\* a connect timeout, which is a ConnectionError too, reported as a timeout
C3_Witness ==
  /\ pc = "done"
  /\ response # <<>>
  /\ response[1].kind = "raise"
  /\ response[1].exc.type = "ConnectTimeout"
  /\ BeginsWith(ret.val, TimeoutPrefix)

NothingUsable(items) ==
  \A j \in 1..Len(items) : items[j].title = "" \/ items[j].link = ""

\* C4: when the API's item list is empty, or every item lacks its title or
\* its link, execute returns the fixed no-results message with "Exit code:
\* 0"; the search request is the only request made and no executor and no
\* future is ever created.
C4_EmptySearch ==
  (response # <<>> /\ response[1].kind = "items" /\ NothingUsable(response[1].items)) =>
    /\ pc = "done"
    /\ ret = Returned(NoResultsMessage)
    /\ BeginsWith(ret.val, "Exit code: 0")
    /\ requests = <<SEARCH_URL>>
    /\ ~executor
    /\ futures = <<>>

C4_Witness ==
  /\ pc = "done"
  /\ response # <<>>
  /\ response[1].kind = "items"
  /\ Len(response[1].items) = 2
  /\ NothingUsable(response[1].items)
  /\ ret = Returned(NoResultsMessage)

\* C5: with the API key or the CX missing no request is ever made, neither
\* the search request nor a page fetch, and execute returns the
\* configuration-error message, which names the missing value.
C5_ConfigBeforeNetwork ==
  (~IsSet(env_key) \/ ~IsSet(env_cx)) =>
    /\ requests = <<>>
    /\ response = <<>>
    /\ ~executor
    /\ pc \in {"start", "done"}
    /\ pc = "done" =>
         /\ ret.ok
         /\ BeginsWith(ret.val, ConfigPrefix)
         /\ Contains(ret.val, IF ~IsSet(env_key) THEN "API key" ELSE "API CX")

C5_Witness ==
  /\ pc = "done"
  /\ IsSet(env_key)
  /\ env_cx = Unset
  /\ Contains(ret.val, "Google Search API CX is not configured")

\* C6: at every moment the number of running fetch tasks is at most
\* min(10, N), N the number of search results.
C6_BoundedConcurrency ==
  /\ Cardinality(Running) <= MaxWorkers
  /\ Cardinality(Running) <= Len(search_results)

\* the cap is reached while a task waits
C6_Witness ==
  /\ Len(search_results) > MaxWorkers
  /\ Cardinality(Running) = MaxWorkers
  /\ Queued # {}

ThePage == CHOOSE page \in web["u1"] : TRUE
TheDoc == Decompose(ThePage.doc)
Matching(doc) == {k \in 1..Len(content_selectors) : SelectOne(doc, content_selectors[k]).found}
Yielding(doc) ==
  {k \in Matching(doc) : GetText(SelectOne(doc, content_selectors[k])) # ""}
First(S) == CHOOSE k \in S : \A j \in S : k <= j
WholeText(doc) ==
  Join(SelectSeq([j \in 1..Len(doc.elems) |-> Strip(doc.elems[j].text)],
                 LAMBDA t : t # ""), " ")

\* the text C8 claims: of the first selector whose match has text
ClaimedText(doc) ==
  IF Yielding(doc) # {}
  THEN GetText(SelectOne(doc, content_selectors[First(Yielding(doc))]))
  ELSE WholeText(doc)

\* the text the code takes: of the first selector that matches at all, and
\* the whole body or document when that element has no text
FirstMatchText(doc) ==
  IF Matching(doc) # {}
       /\ GetText(SelectOne(doc, content_selectors[First(Matching(doc))])) # ""
  THEN GetText(SelectOne(doc, content_selectors[First(Matching(doc))]))
  ELSE WholeText(doc)

\* C8 as claimed: the returned text is made from the first selector, in the
\* order main, article, [role=main], .content, #content, .post, .article,
\* body, whose match has text; a match without text is skipped.
C8_FirstWithText ==
  \A i \in Finished :
    ThePage.kind = "html" =>
      futures[i].result = Returned(Truncate(CleanText(ClaimedText(TheDoc))))

\* C8 as the code has it: the returned text is made from the first selector,
\* in that order, that matches an element at all; when that element has no
\* text (or nothing matches) the text of the whole body is taken, or of the
\* whole document when there is no body.
C8_FirstMatch ==
  \A i \in Finished :
    ThePage.kind = "html" =>
      futures[i].result = Returned(Truncate(CleanText(FirstMatchText(TheDoc))))

\* an empty main before an article with text: the whole body is taken
C8_Witness ==
  /\ ThePage = HtmlPage(Doc(TRUE, <<Elem("main", ""), Elem("article", " Hello   World\n"),
                                    Elem(".post", " Hello   World\n")>>))
  /\ 1 \in Finished
  /\ futures[1].result = Returned("Hello World Hello World")

\* the extracted text of the page before line 233 cuts it
PreTruncation == CleanText(ExtractText(TheDoc))

CutOrWhole(body) ==
  IF Len(PreTruncation) > MaxContent
  THEN body = Prefix(PreTruncation, MaxContent) \o "..."
  ELSE body = PreTruncation

\* C9 as claimed: every body of the output, those of failed pages too, is at
\* most 4096 + 3 long, and is the first 4096 characters and the marker
\* exactly when the extracted text was longer than 4096.
C9_EveryBodyCapped ==
  \A j \in 1..Len(processed_content) :
    /\ Len(processed_content[j][2]) <= MaxContent + Len("...")
    /\ ThePage.kind = "html" => CutOrWhole(processed_content[j][2])

\* C9 as the code has it: the body of a page that was fetched and extracted
\* is at most 4096 + 3 long, and is the first 4096 characters and the marker
\* exactly when the extracted text was longer than 4096 (unchanged at 4096);
\* the body of a failed page is "Failed to fetch content: " and the whole
\* message, of any length.
C9_ExtractedBodyCapped ==
  \A j \in 1..Len(processed_content) :
    /\ ThePage.kind = "html" =>
         /\ Len(processed_content[j][2]) <= MaxContent + Len("...")
         /\ CutOrWhole(processed_content[j][2])
    /\ ThePage.kind = "raise" =>
         processed_content[j][2] = FailurePrefix \o ThePage.exc.msg

\* a text of 4097 characters, cut to 4096 and the marker
C9_Witness ==
  /\ ThePage.kind = "html"
  /\ Len(PreTruncation) = MaxContent + 1
  /\ Len(processed_content) = 1
  /\ Len(processed_content[1][2]) = MaxContent + 3
  /\ EndsWith(processed_content[1][2], "x...")

\* C10: the entries collected so far are, each as often as it occurs, the
\* entries of the yielded futures: the title of a search result with the
\* body of the task that was given that result, also when results share a
\* title or a URL.
C10_OwnTitleOwnBody ==
  /\ Len(processed_content) = Cardinality(yielded)
  /\ \A i \in yielded :
       Count(processed_content, <<search_results[i][1], OwnBody(i)>>)
         = Cardinality({k \in yielded :
             <<search_results[k][1], OwnBody(k)>> = <<search_results[i][1], OwnBody(i)>>})

\* two results of one URL and different titles, whose fetches ended differently
C10_Witness ==
  /\ yielded = {1, 2}
  /\ search_results[1][2] = search_results[2][2]
  /\ search_results[1][1] # search_results[2][1]
  /\ futures[1].result.ok
  /\ ~futures[2].result.ok

====
